---- MODULE Spec2Model ----
(***************************************************************************)
(* The JAMB mock event lifecycle of src/public/js/teacher-event-contribute.js *)
(* (server part): one stored JambEvent document, the teacher contribute     *)
(* handler and the host publish handler.  Each handler awaits the database  *)
(* twice (a read, then event.save()), so a handler is two atomic steps with *)
(* an in-memory copy of the document in between; other requests may run     *)
(* between the two steps.                                                   *)
(***************************************************************************)
EXTENDS Integers, Sequences, FiniteSets, TLC

(* ------------------------------ bounds -------------------------------- *)
\* longest batch a request body carries
MaxBatch == 2
\* largest questionsPerSubject an event is created with
MaxQuota == 2
\* how many of the handler's five subject names the modelled event keeps
NumSubjects == 2
\* how many contribute requests the server receives in one behaviour
MaxCalls == 3
\* how many student responses the collection holds at most
MaxSubmits == 2
\* how many clicks the Add Question button receives
MaxAdds == 2
\* how many clicks the Remove Question buttons receive
MaxRemoves == 2
\* how many clicks on image remove buttons the page receives
MaxClicks == 2
\* how many image uploads the page starts
MaxUploads == 1
\* how many times the contribute form is submitted
MaxSaves == 1

(* ------------------------- texts and trimming ------------------------- *)
\* A text is a tuple of one-character strings; " " is white space.
IsSpace(c) == c = " "

RECURSIVE TrimStart(_)
TrimStart(s) ==
    IF s = <<>> THEN <<>>
    ELSE IF IsSpace(Head(s)) THEN TrimStart(Tail(s)) ELSE s

RECURSIVE TrimEnd(_)
TrimEnd(s) ==
    IF s = <<>> THEN <<>>
    ELSE IF IsSpace(s[Len(s)]) THEN TrimEnd(SubSeq(s, 1, Len(s) - 1)) ELSE s

\* String.prototype.trim
Trim(s) == TrimEnd(TrimStart(s))

\* Array.prototype.map
MapSeq(f(_), s) == [i \in 1..Len(s) |-> f(s[i])]

(* --------------------------- the principals --------------------------- *)
\* req.teacher, as authenticateTeacher loads it: _id, name, subject
Teachers ==
    { [id |-> "t1", name |-> "Ada",  subject |-> "Mathematics"],
      [id |-> "t2", name |-> "Bayo", subject |-> "English"],
      [id |-> "t3", name |-> "Chi",  subject |-> "Mathematics"],
      [id |-> "t4", name |-> "Dayo", subject |-> "Geography"] }

\* req.host._id, as authenticateHost loads it
Hosts == {"h1", "h2"}

\* the host that created the event
Owner == "h1"

\* req.params.eventId: the id of the stored event, and an id nothing has
EventId == "e1"
EventIds == {"e1", "e0"}

\* req.params.shareId: the share id of the stored event, and one nothing has
ShareId == "s1"
ShareIds == {"s1", "s0"}

\* the contribute requests that can be in flight at once; a request slot has
\* no identity of its own, so a new request takes the first free one
Workers == {1, 2}

(* ------------------------- the request bodies ------------------------- *)
OptsABCD == << <<"a">>, <<"b", " ">>, <<"c">>, <<"d">> >>

\* a well-formed question whose texts need trimming
qA == [question |-> <<" ", "a">>, options |-> OptsABCD, correctAnswer |-> 0]

\* a well-formed question carrying an image, and attribution fields naming
\* another teacher
qB == [question |-> <<"b">>, options |-> OptsABCD, correctAnswer |-> 3,
       imageUrls |-> <<"u1">>, imagePublicIds |-> <<"p1">>,
       teacherId |-> "t2", teacherName |-> "Bayo"]

\* a question with 3 options instead of 4
qX == [question |-> <<"x">>, options |-> << <<"a">>, <<"b">>, <<"c">> >>,
       correctAnswer |-> 1]

QuestionInputs == {qA, qB, qX}

\* further request bodies for the handler's validation: a question text of
\* white space only, an option of white space only, a correctAnswer of 4, no
\* correctAnswer, an empty question text
qW == [question |-> <<" ">>, options |-> OptsABCD, correctAnswer |-> 1]
qE == [question |-> <<"e">>,
       options |-> << <<"a">>, <<" ">>, <<"c">>, <<"d">> >>, correctAnswer |-> 2]
qN == [question |-> <<"n">>, options |-> OptsABCD, correctAnswer |-> 4]
qM == [question |-> <<"m">>, options |-> OptsABCD]
qZ == [question |-> <<>>, options |-> OptsABCD, correctAnswer |-> 0]

\* request bodies with image arrays: two urls with one public id, four
\* images, two images
qI == [question |-> <<"i">>, options |-> OptsABCD, correctAnswer |-> 0,
       imageUrls |-> <<"u1", "u2">>, imagePublicIds |-> <<"p1">>]
qJ == [question |-> <<"j">>, options |-> OptsABCD, correctAnswer |-> 0,
       imageUrls |-> <<"u1", "u2", "u3", "u4">>,
       imagePublicIds |-> <<"p1", "p2", "p3", "p4">>]
qK == [question |-> <<"k">>, options |-> OptsABCD, correctAnswer |-> 2,
       imageUrls |-> <<"u1", "u2">>, imagePublicIds |-> <<"p1", "p2">>]

IntakeInputs == QuestionInputs \cup {qW, qE, qN, qM, qZ, qI, qJ}

\* req.body.questions: up to MaxBatch questions, no question twice
Batches ==
    { b \in UNION { [1..n -> QuestionInputs] : n \in 0..MaxBatch } :
        \A i, j \in 1..Len(b) : b[i] = b[j] => i = j }

\* req.body.questions over the further request bodies
IntakeBatches ==
    { b \in UNION { [1..n -> IntakeInputs] : n \in 0..MaxBatch } :
        \A i, j \in 1..Len(b) : b[i] = b[j] => i = j }

(* ----------------------- the contribute handler ----------------------- *)
\* the first failing check of the map callback, "" when the question passes
ValidationError(q) ==
    IF \/ "question" \notin DOMAIN q
       \/ q.question = <<>>
       \/ "options" \notin DOMAIN q
       \/ "correctAnswer" \notin DOMAIN q
    THEN "Invalid question data: missing required fields"
    ELSE IF Len(q.options) # 4
    THEN "Each question must have exactly 4 options"
    ELSE IF q.correctAnswer < 0 \/ q.correctAnswer > 3
    THEN "Correct answer must be between 0 and 3"
    ELSE ""

\* the object the map callback returns for a question that passes
NewQuestion(q, teacher) ==
    [question       |-> Trim(q.question),
     options        |-> MapSeq(Trim, q.options),
     correctAnswer  |-> q.correctAnswer,
     imageUrls      |-> IF "imageUrls" \in DOMAIN q THEN q.imageUrls ELSE <<>>,
     imagePublicIds |-> IF "imagePublicIds" \in DOMAIN q THEN q.imagePublicIds ELSE <<>>,
     teacherId      |-> teacher.id,
     teacherName    |-> teacher.name]

\* questions.map(...): the message of the first throw, "" when none throws
RECURSIVE FirstError(_)
FirstError(batch) ==
    IF batch = <<>> THEN ""
    ELSE IF ValidationError(Head(batch)) # "" THEN ValidationError(Head(batch))
    ELSE FirstError(Tail(batch))

\* event.subjects.findIndex(s => s.subject === name); 0 stands for -1
FindIndex(subjects, name) ==
    IF \E i \in 1..Len(subjects) : subjects[i].subject = name
    THEN CHOOSE i \in 1..Len(subjects) :
            /\ subjects[i].subject = name
            /\ \A j \in 1..(i - 1) : subjects[j].subject # name
    ELSE 0

\* a merge instead of a replace: the filter drops nothing
RemoveTeacherQuestions_Merge(questions, teacherId) == questions

\* questions.filter(q => !q.teacherId || q.teacherId !== teacher._id)
RemoveTeacherQuestions(questions, teacherId) ==
    SelectSeq(questions,
              LAMBDA q : "teacherId" \notin DOMAIN q \/ q.teacherId # teacherId)

\* an additive ledger: the batch length is added to the entry's count
UpsertContribution_Additive(tcs, teacher, n) ==
    IF \E i \in 1..Len(tcs) : tcs[i].teacherId = teacher.id
    THEN [i \in 1..Len(tcs) |->
             IF tcs[i].teacherId = teacher.id
             THEN [tcs[i] EXCEPT !.questionCount = @ + n] ELSE tcs[i]]
    ELSE Append(tcs, [teacherId |-> teacher.id, teacherName |-> teacher.name,
                      questionCount |-> n])

\* a ledger that pushes a new entry on every call
UpsertContribution_AlwaysPush(tcs, teacher, n) ==
    Append(tcs, [teacherId |-> teacher.id, teacherName |-> teacher.name,
                 questionCount |-> n])

\* the find / overwrite / push on teacherContributions
UpsertContribution(tcs, teacher, n) ==
    IF \E i \in 1..Len(tcs) : tcs[i].teacherId = teacher.id
    THEN LET k == CHOOSE i \in 1..Len(tcs) :
                     /\ tcs[i].teacherId = teacher.id
                     /\ \A j \in 1..(i - 1) : tcs[j].teacherId # teacher.id
         IN  [tcs EXCEPT ![k].questionCount = n]
    ELSE Append(tcs, [teacherId |-> teacher.id, teacherName |-> teacher.name,
                      questionCount |-> n])

\* a reduce that returns the first slot's count instead of accumulating
SumQuestionCount_First(subjects) ==
    IF subjects = <<>> THEN 0 ELSE Head(subjects).questionCount

\* event.subjects.reduce((total, subject) => total + subject.questionCount, 0)
RECURSIVE SumQuestionCount(_)
SumQuestionCount(subjects) ==
    IF subjects = <<>> THEN 0
    ELSE Head(subjects).questionCount + SumQuestionCount(Tail(subjects))

\* the comparison written > instead of >=
AllSubjectsComplete_Strict(ev) ==
    \A i \in 1..Len(ev.subjects) :
        ev.subjects[i].questionCount > ev.questionsPerSubject

\* event.subjects.every(subject => subject.questionCount >= questionsPerSubject)
AllSubjectsComplete(ev) ==
    \A i \in 1..Len(ev.subjects) :
        ev.subjects[i].questionCount >= ev.questionsPerSubject

\* a guard that only turns published events away
AcceptsContributions_UntilPublished(ev) == ev.status # "published"

\* the guard `event.status !== 'active'` passes
AcceptsContributions(ev) == ev.status = "active"

\* the filter written through to the store before the map callback threw
AfterThrow_FilterSaved(ev, teacher) ==
    LET i == FindIndex(ev.subjects, teacher.subject)
    IN  [ev EXCEPT !.subjects[i].questions =
                       RemoveTeacherQuestions(@, teacher.id)]

\* what the store holds after the map callback threw: the catch block answers
\* 500 and saves nothing, the filter before it touched only the handler's copy
AfterThrow(ev, teacher) == ev

\* questionCount set to the length of the batch instead of the slot's
ReplaceInSlot_CountBatch(slot, teacher, batch) ==
    LET kept == RemoveTeacherQuestions(slot.questions, teacher.id)
        qs   == kept \o MapSeq(LAMBDA q : NewQuestion(q, teacher), batch)
    IN  [slot EXCEPT !.questions = qs,
                     !.questionCount = Len(batch),
                     !.teacherContributions =
                         UpsertContribution(@, teacher, Len(batch))]

\* questionCount taken after the filter and before the push
ReplaceInSlot_CountBefore(slot, teacher, batch) ==
    LET kept == RemoveTeacherQuestions(slot.questions, teacher.id)
        qs   == kept \o MapSeq(LAMBDA q : NewQuestion(q, teacher), batch)
    IN  [slot EXCEPT !.questions = qs,
                     !.questionCount = Len(kept),
                     !.teacherContributions =
                         UpsertContribution(@, teacher, Len(batch))]

\* the slot after the teacher's old questions are dropped and the batch pushed
ReplaceInSlot(slot, teacher, batch) ==
    LET kept == RemoveTeacherQuestions(slot.questions, teacher.id)
        qs   == kept \o MapSeq(LAMBDA q : NewQuestion(q, teacher), batch)
    IN  [slot EXCEPT !.questions = qs,
                     !.questionCount = Len(qs),
                     !.teacherContributions =
                         UpsertContribution(@, teacher, Len(batch))]

\* the written slot pushed as a new slot instead of replacing the old one
Mutated_PushSlot(ev, teacher, batch) ==
    LET i    == FindIndex(ev.subjects, teacher.subject)
        subs == Append(ev.subjects, ReplaceInSlot(ev.subjects[i], teacher, batch))
    IN  [ev EXCEPT !.subjects = subs,
                   !.totalQuestions = SumQuestionCount(subs)]

\* the in-memory document when the handler reaches event.save()
Mutated(ev, teacher, batch) ==
    LET i    == FindIndex(ev.subjects, teacher.subject)
        subs == [ev.subjects EXCEPT ![i] = ReplaceInSlot(@, teacher, batch)]
        ev1  == [ev EXCEPT !.subjects = subs,
                           !.totalQuestions = SumQuestionCount(subs)]
    IN  IF AllSubjectsComplete(ev1) /\ ev1.status = "active"
        THEN [ev1 EXCEPT !.status = "completed"]
        ELSE ev1

(* ------------------------- the publish handler ------------------------ *)
\* a lookup by id alone
OwnedBy_Anyone(ev, host) == TRUE

\* the `hostId: req.host._id` condition of the host handlers' findOne
OwnedBy(ev, host) == ev.hostId = host

\* the comparison written <= instead of <
IncompleteSubjects_AtQuota(ev) ==
    SelectSeq(ev.subjects,
              LAMBDA s : s.questionCount <= ev.questionsPerSubject)

\* event.subjects.filter(subject => subject.questionCount < questionsPerSubject)
IncompleteSubjects(ev) ==
    SelectSeq(ev.subjects,
              LAMBDA s : s.questionCount < ev.questionsPerSubject)

\* `${s.subject} (${s.questionCount}/${event.questionsPerSubject})`, kept as
\* the three values the template prints
SubjectNames(ev) ==
    MapSeq(LAMBDA s : <<s.subject, s.questionCount, ev.questionsPerSubject>>,
           IncompleteSubjects(ev))

\* the second assignment placed in an else branch
Published_OneStep(ev) ==
    IF ev.status = "active" THEN [ev EXCEPT !.status = "completed"]
    ELSE [ev EXCEPT !.status = "published"]

\* the two assignments to event.status before the publish handler's save
Published(ev) ==
    LET ev1 == IF ev.status = "active" THEN [ev EXCEPT !.status = "completed"]
               ELSE ev
    IN  [ev1 EXCEPT !.status = "published"]

(* ------------------------------ the state ----------------------------- *)
VARIABLES
    event,      \* the stored JambEvent document
    pc,         \* per contribute request: "idle", or "saving" (awaiting save)
    call,       \* per contribute request awaiting save: its req and its copy
    pub,        \* the publish request awaiting save, or NoPub
    calls,      \* the number of contribute requests received so far
    response,   \* the latest HTTP response sent: status code and body, with
                \* the event id (and the batch length) of the request it answers
    deleted,    \* whether findByIdAndDelete has removed the event document
                \* (event then keeps the document as it was last stored)
    responses,  \* the JambResponse collection, in insertion order
    sub,        \* the student submission awaiting response.save(), or NoSub
    del,        \* the delete request in progress, or NoDel
    destroyed,  \* the public ids passed to cloudinary.uploader.destroy
    page        \* the contribute page open in a teacher's browser: the
                \* variables of its DOMContentLoaded closure and its DOM

vars == <<event, pc, call, pub, calls, response,
          deleted, responses, sub, del, destroyed, page>>

\* the state of the server
serverVars == <<event, pc, call, pub, calls, response,
                deleted, responses, sub, del, destroyed>>

\* the state only the student and delete handlers write
lifeVars == <<deleted, responses, sub, del, destroyed>>

\* the subjects array of the create-event handler
AllSubjectNames == <<"Mathematics", "English", "Physics", "Chemistry", "Biology">>

\* the document the create-event handler saves
NewEvent(questionsPerSubject) ==
    [status             |-> "active",
     questionsPerSubject |-> questionsPerSubject,
     hostId             |-> Owner,
     shareId            |-> ShareId,
     subjects           |-> [i \in 1..NumSubjects |->
                               [subject              |-> AllSubjectNames[i],
                                questions            |-> <<>>,
                                questionCount        |-> 0,
                                teacherContributions |-> <<>>]],
     totalQuestions     |-> 0]

NoCall == [teacher |-> "none"]
NoPub == [host |-> "none"]
NoSub == [student |-> "none"]
NoDel == [host |-> "none"]

\* the page when the DOMContentLoaded listener returns: both fetches are
\* under way, the loading container shows, the form and the error container
\* are hidden, no question item exists
PageStart ==
    [teacherData      |-> "null",    \* teacherData: null or the /api/verify body
     verify           |-> "pending", \* the /api/verify request
     load             |-> "pending", \* the event request
     eventData        |-> 0,         \* eventData.questionsPerSubject (0: null)
     loadingHidden    |-> FALSE,
     contributeHidden |-> TRUE,
     errorHidden      |-> TRUE,
     location         |-> "page",    \* window.location
     items            |-> <<>>,      \* the .question-item elements, in order
     questionCount    |-> 0,
     adds             |-> 0,         \* clicks on the Add Question button
     removes          |-> 0,         \* clicks on Remove Question buttons
     leaving          |-> FALSE,     \* the redirect timer is set
     removals         |-> <<>>,      \* removeQuestion calls awaiting a fetch
     handlers         |-> <<>>,      \* image remove listeners awaiting a fetch
     imageDeletes     |-> 0,         \* DELETE /api/delete-image requests sent
     clicks           |-> 0,         \* clicks on image remove buttons
     uploads          |-> 0,         \* uploads started
     saves            |-> 0,         \* submit events of the form
     saving           |-> FALSE,     \* the contribute request is under way
     sent             |-> <<>>,      \* the bodies of the contribute requests
     alert            |-> ""]        \* the alert showing

Init ==
    /\ page = PageStart
    /\ \E n \in 0..MaxQuota : event = NewEvent(n)
    /\ pc = [w \in Workers |-> "idle"]
    /\ call = [w \in Workers |-> NoCall]
    /\ pub = NoPub
    /\ calls = 0
    /\ response = [op |-> "none"]
    /\ deleted = FALSE
    /\ responses = <<>>
    /\ sub = NoSub
    /\ del = NoDel
    /\ destroyed = {}

\* res.status(code).json(body) / res.json(body), for the request req
Respond(op, req, status, body) ==
    response' = [op |-> op, req |-> req, status |-> status, body |-> body]

(* ------------------ POST /api/teacher/events/:id/contribute ----------- *)
\* From the top of the handler to its first response or to event.save():
\* the body check, the findById, the status and subject checks, the filter,
\* the validating map and the in-memory mutation.
ContributeLoad(w, teacher, eventId, questions) ==
    /\ UNCHANGED page
    /\ pc[w] = "idle"
    /\ \A v \in Workers : v < w => pc[v] # "idle"
    /\ calls < MaxCalls
    /\ calls' = calls + 1
    /\ UNCHANGED lifeVars
    /\ LET req == [eventId |-> eventId, length |-> Len(questions)]
       IN
       IF questions = <<>>
       THEN /\ Respond("contribute", req, 400, [error |-> "No questions provided"])
            /\ UNCHANGED <<event, pc, call, pub>>
       ELSE IF eventId # EventId \/ deleted
       THEN /\ Respond("contribute", req, 404, [error |-> "Event not found"])
            /\ UNCHANGED <<event, pc, call, pub>>
       ELSE IF ~AcceptsContributions(event)
       THEN /\ Respond("contribute", req, 400,
                       [error |-> "Event is not active for contributions"])
            /\ UNCHANGED <<event, pc, call, pub>>
       ELSE IF FindIndex(event.subjects, teacher.subject) = 0
       THEN /\ Respond("contribute", req, 400,
                       [error |-> "Subject not found in event"])
            /\ UNCHANGED <<event, pc, call, pub>>
       ELSE IF FirstError(questions) # ""
       THEN /\ Respond("contribute", req, 500,
                       [error |-> "Failed to save questions",
                        details |-> FirstError(questions)])
            /\ event' = AfterThrow(event, teacher)
            /\ UNCHANGED <<pc, call, pub>>
       ELSE /\ pc' = [pc EXCEPT ![w] = "saving"]
            /\ call' = [call EXCEPT ![w] =
                           [teacher |-> teacher, eventId |-> eventId,
                            questions |-> questions,
                            loaded |-> event.status,
                            doc |-> Mutated(event, teacher, questions),
                            stale |-> FALSE]]
            /\ UNCHANGED <<event, pub, response>>

\* what event.save() sends: the paths marked modified (subjects and
\* totalQuestions), and status when the handler assigned it a new value
Written(stored, c) ==
    [stored EXCEPT !.subjects = c.doc.subjects,
                   !.totalQuestions = c.doc.totalQuestions,
                   !.status = IF c.doc.status # c.loaded THEN c.doc.status ELSE @]

\* the other requests whose copy is older than the stored subjects array
Outdated(w) ==
    [v \in Workers |->
        IF v # w /\ pc[v] = "saving" THEN [call[v] EXCEPT !.stale = TRUE]
        ELSE IF v = w THEN NoCall ELSE call[v]]

\* event.save() is applied, then the 200 response
ContributeSave(w) ==
    /\ UNCHANGED page
    /\ pc[w] = "saving"
    /\ ~deleted
    /\ LET c == call[w]
           i == FindIndex(c.doc.subjects, c.teacher.subject)
       IN  /\ event' = Written(event, c)
           /\ Respond("contribute",
                      [eventId |-> c.eventId, length |-> Len(c.questions)],
                      200,
                      [message |-> "Questions saved successfully",
                       questionCount |-> Len(c.questions),
                       totalSubjectQuestions |-> c.doc.subjects[i].questionCount,
                       eventStatus |-> c.doc.status])
    /\ pc' = [pc EXCEPT ![w] = "idle"]
    /\ call' = Outdated(w)
    /\ UNCHANGED <<pub, calls>>
    /\ UNCHANGED lifeVars

\* event.save() throws because the stored arrays changed since the read
\* (the document's version no longer matches) or because the document is
\* gone; the catch answers 500
ContributeSaveConflict(w) ==
    /\ UNCHANGED page
    /\ pc[w] = "saving"
    /\ call[w].stale \/ deleted
    /\ LET c == call[w]
       IN  Respond("contribute",
                   [eventId |-> c.eventId, length |-> Len(c.questions)],
                   500,
                   [error |-> "Failed to save questions",
                    details |-> "No matching document found"])
    /\ pc' = [pc EXCEPT ![w] = "idle"]
    /\ call' = [call EXCEPT ![w] = NoCall]
    /\ UNCHANGED <<event, pub, calls>>
    /\ UNCHANGED lifeVars

(* -------------------- POST /api/host/events/:id/publish --------------- *)
\* From the findOne to the first response or to event.save()
PublishLoad(host, eventId) ==
    /\ UNCHANGED page
    /\ pub = NoPub
    /\ UNCHANGED lifeVars
    /\ LET req == [host |-> host, eventId |-> eventId]
       IN
       IF eventId # EventId \/ deleted \/ ~OwnedBy(event, host)
       THEN /\ Respond("publish", req, 404, [error |-> "Event not found"])
            /\ UNCHANGED <<event, pc, call, pub, calls>>
       ELSE IF Len(IncompleteSubjects(event)) > 0
       THEN /\ Respond("publish", req, 400,
                       [error |-> "Cannot publish event",
                        subjectNames |-> SubjectNames(event)])
            /\ UNCHANGED <<event, pc, call, pub, calls>>
       ELSE /\ pub' = [host |-> host, eventId |-> eventId,
                       loaded |-> event.status,
                       doc |-> Published(event)]
            /\ UNCHANGED <<event, pc, call, calls, response>>

\* event.save() of the publish handler: status is the only path it assigned
PublishSave ==
    /\ UNCHANGED page
    /\ pub # NoPub
    /\ ~deleted \/ pub.doc.status = pub.loaded
    /\ event' = [event EXCEPT !.status =
                    IF pub.doc.status # pub.loaded THEN pub.doc.status ELSE @]
    /\ Respond("publish", [host |-> pub.host, eventId |-> pub.eventId], 200,
               [message |-> "Event published successfully"])
    /\ pub' = NoPub
    /\ UNCHANGED <<pc, call, calls>>
    /\ UNCHANGED lifeVars

\* event.save() of the publish handler throws because the document is gone;
\* the catch answers 500
PublishSaveMissing ==
    /\ UNCHANGED page
    /\ pub # NoPub
    /\ deleted
    /\ pub.doc.status # pub.loaded
    /\ Respond("publish", [host |-> pub.host, eventId |-> pub.eventId], 500,
               [error |-> "Failed to publish event"])
    /\ pub' = NoPub
    /\ UNCHANGED <<event, pc, call, calls>>
    /\ UNCHANGED lifeVars

(* ------------------------- the student handlers ----------------------- *)
\* req.body of a submission: the student and the answers; questionIndex
\* counts from 0
Students == { [name |-> "sam", email |-> "sam@x"], [name |-> "", email |-> "sam@x"] }

AnswerSheets ==
    { <<>>,
      << [subject |-> "Mathematics", questionIndex |-> 0, selectedAnswer |-> 0],
         [subject |-> "English", questionIndex |-> 0, selectedAnswer |-> 3],
         [subject |-> "English", questionIndex |-> 1, selectedAnswer |-> 3] >>,
      << [subject |-> "Mathematics", questionIndex |-> 0, selectedAnswer |-> 3],
         [subject |-> "Mathematics", questionIndex |-> 5, selectedAnswer |-> 0],
         [subject |-> "Geography", questionIndex |-> 0, selectedAnswer |-> 0] >> }

\* a lookup that also serves completed events
Visible_OnceComplete(ev) == ev.status # "active"

\* the `status: 'published'` condition of the two student queries
Visible(ev) == ev.status = "published"

\* JambEvent.findOne({ shareId, status: 'published' }) finds the event
FindPublished(shareId) ==
    ~deleted /\ event.shareId = shareId /\ Visible(event)

\* answers.filter(a => a.subject === subject.subject)
SubjectAnswers(answers, subject) ==
    SelectSeq(answers, LAMBDA a : a.subject = subject)

\* questionIndex taken as counting from 1
SubjectScore_Shifted(slot, answers) ==
    Len(SelectSeq(SubjectAnswers(answers, slot.subject),
                  LAMBDA a : /\ a.questionIndex \in 1..Len(slot.questions)
                             /\ a.selectedAnswer
                                   = slot.questions[a.questionIndex].correctAnswer))

\* the answers of the subject that select the question's correctAnswer
SubjectScore(slot, answers) ==
    Len(SelectSeq(SubjectAnswers(answers, slot.subject),
                  LAMBDA a : /\ a.questionIndex + 1 \in 1..Len(slot.questions)
                             /\ a.selectedAnswer
                                   = slot.questions[a.questionIndex + 1].correctAnswer))

\* the scores array the forEach builds
Scores(ev, answers) ==
    [i \in 1..Len(ev.subjects) |->
        [subject        |-> ev.subjects[i].subject,
         score          |-> SubjectScore(ev.subjects[i], answers),
         totalQuestions |-> Len(SubjectAnswers(answers, ev.subjects[i].subject))]]

RECURSIVE SumScore(_)
SumScore(scores) ==
    IF scores = <<>> THEN 0 ELSE Head(scores).score + SumScore(Tail(scores))

RECURSIVE SumAnswered(_)
SumAnswered(scores) ==
    IF scores = <<>> THEN 0
    ELSE Head(scores).totalQuestions + SumAnswered(Tail(scores))

\* Math.round((totalScore / totalQuestions) * 100), 0 when nothing answered
Percentage(totalScore, totalQuestions) ==
    IF totalQuestions > 0
    THEN (200 * totalScore + totalQuestions) \div (2 * totalQuestions)
    ELSE 0

\* new JambResponse({...})
NewResponse(ev, student, answers) ==
    LET scores == Scores(ev, answers)
    IN  [eventId        |-> EventId,
         studentName    |-> student.name,
         studentEmail   |-> student.email,
         answers        |-> answers,
         scores         |-> scores,
         totalScore     |-> SumScore(scores),
         totalQuestions |-> SumAnswered(scores),
         percentage     |-> Percentage(SumScore(scores), SumAnswered(scores))]

\* GET /api/jamb-mock/:shareId
Fetch(shareId) ==
    /\ UNCHANGED page
    /\ IF FindPublished(shareId)
       THEN Respond("fetch", [shareId |-> shareId], 200, event)
       ELSE Respond("fetch", [shareId |-> shareId], 404,
                    [error |-> "JAMB Mock not found or not published"])
    /\ UNCHANGED <<event, pc, call, pub, calls>>
    /\ UNCHANGED lifeVars

\* POST /api/jamb-mock/submit/:shareId, from the findOne to the 404 or to
\* response.save()
SubmitLoad(shareId, student, answers) ==
    /\ UNCHANGED page
    /\ sub = NoSub
    /\ Len(responses) < MaxSubmits
    /\ IF FindPublished(shareId)
       THEN /\ sub' = [student |-> student.name, shareId |-> shareId,
                       doc |-> NewResponse(event, student, answers)]
            /\ UNCHANGED response
       ELSE /\ Respond("submit", [shareId |-> shareId], 404,
                       [error |-> "JAMB Mock not found"])
            /\ UNCHANGED sub
    /\ UNCHANGED <<event, pc, call, pub, calls, deleted, responses, del, destroyed>>

\* response.save(): the document is inserted, or it fails validation
\* (studentName is required) and the catch answers 500
SubmitSave ==
    /\ UNCHANGED page
    /\ sub # NoSub
    /\ IF sub.doc.studentName = ""
       THEN /\ Respond("submit", [shareId |-> sub.shareId], 500,
                       [error |-> "Failed to submit JAMB Mock"])
            /\ UNCHANGED responses
       ELSE /\ responses' = Append(responses, sub.doc)
            /\ Respond("submit", [shareId |-> sub.shareId], 200,
                       [totalScore     |-> sub.doc.totalScore,
                        totalQuestions |-> sub.doc.totalQuestions,
                        percentage     |-> sub.doc.percentage,
                        scores         |-> sub.doc.scores])
    /\ sub' = NoSub
    /\ UNCHANGED <<event, pc, call, pub, calls, deleted, del, destroyed>>

(* ---------------------- DELETE /api/host/events/:id ------------------- *)
\* the public ids the loops over subjects, questions and imagePublicIds visit
PublicIds(ev) ==
    UNION { { ev.subjects[i].questions[k].imagePublicIds[n] :
                n \in 1..Len(ev.subjects[i].questions[k].imagePublicIds) } :
            <<i, k>> \in { <<i, k>> \in (1..Len(ev.subjects)) \X (1..MaxBatch * 4) :
                             k <= Len(ev.subjects[i].questions) } }

\* From the findOne to the 404 or to the deleteMany
DeleteLoad(host, eventId) ==
    /\ UNCHANGED page
    /\ del = NoDel
    /\ IF eventId # EventId \/ deleted \/ ~OwnedBy(event, host)
       THEN /\ Respond("delete", [host |-> host, eventId |-> eventId], 404,
                       [error |-> "Event not found"])
            /\ UNCHANGED del
       ELSE /\ del' = [host |-> host, eventId |-> eventId, step |-> "responses",
                       ids |-> PublicIds(event)]
            /\ UNCHANGED response
    /\ UNCHANGED <<event, pc, call, pub, calls, deleted, responses, sub, destroyed>>

\* JambResponse.deleteMany({ eventId })
DeleteResponses ==
    /\ UNCHANGED page
    /\ del # NoDel
    /\ del.step = "responses"
    /\ responses' = SelectSeq(responses, LAMBDA r : r.eventId # del.eventId)
    /\ del' = [del EXCEPT !.step = "images"]
    /\ UNCHANGED <<event, pc, call, pub, calls, response, deleted, sub, destroyed>>

\* the loops calling cloudinary.uploader.destroy on the handler's copy
DeleteImages ==
    /\ UNCHANGED page
    /\ del # NoDel
    /\ del.step = "images"
    /\ destroyed' = destroyed \cup del.ids
    /\ del' = [del EXCEPT !.step = "event"]
    /\ UNCHANGED <<event, pc, call, pub, calls, response, deleted, responses, sub>>

\* JambEvent.findByIdAndDelete(eventId) and the 200 response
DeleteEvent ==
    /\ UNCHANGED page
    /\ del # NoDel
    /\ del.step = "event"
    /\ deleted' = TRUE
    /\ Respond("delete", [host |-> del.host, eventId |-> del.eventId], 200,
               [message |-> "Event deleted successfully"])
    /\ del' = NoDel
    /\ UNCHANGED <<event, pc, call, pub, calls, responses, sub, destroyed>>

(* --------------------------- the specification ------------------------ *)
Next ==
    \/ \E w \in Workers, t \in Teachers, e \in EventIds, b \in Batches :
          ContributeLoad(w, t, e, b)
    \/ \E w \in Workers : ContributeSave(w)
    \/ \E w \in Workers : ContributeSaveConflict(w)
    \/ \E h \in Hosts, e \in EventIds : PublishLoad(h, e)
    \/ PublishSave

Spec == Init /\ [][Next]_vars

\* The contribute handler alone, one request at a time, over the further
\* request bodies: what its validation lets through to the store.
IntakeTeacher == CHOOSE t \in Teachers : t.id = "t1"

IntakeNext ==
    \/ \E b \in IntakeBatches : ContributeLoad(1, IntakeTeacher, EventId, b)
    \/ ContributeSave(1)

IntakeSpec == Init /\ [][IntakeNext]_vars

\* The whole life of an event: contributions, publication, student access and
\* deletion.  It is taken up when all contribute requests but one have been
\* served: an event with a quota of 1 whose Mathematics slot holds the one
\* question its teacher contributed, the English slot still empty.  The last
\* contribute request carries a one-question batch.
LifeBatches == { b \in Batches : Len(b) = 1 }

LifeInit ==
    /\ page = PageStart
    /\ event = Written(NewEvent(1),
                       [loaded |-> "active",
                        doc |-> Mutated(NewEvent(1), IntakeTeacher, <<qA>>)])
    /\ pc = [w \in Workers |-> "idle"]
    /\ call = [w \in Workers |-> NoCall]
    /\ pub = NoPub
    /\ calls = MaxCalls - 1
    /\ response = [op |-> "none"]
    /\ deleted = FALSE
    /\ responses = <<>>
    /\ sub = NoSub
    /\ del = NoDel
    /\ destroyed = {}

LifeNext ==
    \/ \E w \in Workers, t \in Teachers, b \in LifeBatches :
          ContributeLoad(w, t, EventId, b)
    \/ \E w \in Workers : ContributeSave(w)
    \/ \E w \in Workers : ContributeSaveConflict(w)
    \/ \E h \in Hosts, e \in EventIds : PublishLoad(h, e)
    \/ PublishSave
    \/ PublishSaveMissing
    \/ \E sh \in ShareIds : Fetch(sh)
    \/ \E sh \in ShareIds, st \in Students, a \in AnswerSheets :
          SubmitLoad(sh, st, a)
    \/ SubmitSave
    \/ \E h \in Hosts, e \in EventIds : DeleteLoad(h, e)
    \/ DeleteResponses
    \/ DeleteImages
    \/ DeleteEvent

LifeSpec == LifeInit /\ [][LifeNext]_vars

(* ======================= the contribute page ========================== *)
\* array.filter(x => x) over the pieces of a comma separated value
NonEmpty(seq) == SelectSeq(seq, LAMBDA x : x # "")

\* array.splice(i - 1, 1): nothing goes when the index is past the end
RemoveAt(seq, i) ==
    IF i > Len(seq) THEN seq
    ELSE [k \in 1..(Len(seq) - 1) |-> IF k < i THEN seq[k] ELSE seq[k + 1]]

\* what GET /api/teacher/events/:eventId can put in existingQuestions: the
\* teacher's stored questions
StoredBy(q) == NewQuestion(q, IntakeTeacher)
ExistingSets ==
    {<<>>, <<StoredBy(qB)>>, <<StoredBy(qK), StoredBy(qB)>>,
     <<StoredBy(qA), StoredBy(qB)>>}

\* currentImages as initializeImageUpload builds it from the hidden inputs
LoadedImages(urlsInput, idsInput) ==
    LET urls == NonEmpty(urlsInput)
        ids  == NonEmpty(idsInput)
    IN [k \in 1..Len(urls) |->
           [url |-> urls[k],
            publicId |-> IF k <= Len(ids) THEN ids[k] ELSE ""]]

\* the question passed to addQuestion() when it is called without one
NoQuestion ==
    [question |-> <<>>, options |-> <<<<>>, <<>>, <<>>, <<>>>>,
     correctAnswer |-> -1, imageUrls |-> <<>>, imagePublicIds |-> <<>>]

\* addQuestion(q, number) called by loadExistingQuestions: the counter is
\* set, the item is appended and initializeImageUpload runs on it, which ends
\* in updatePreview(): one click listener on every rendered preview
addQuestion(pg, q, number) ==
    LET images == LoadedImages(q.imageUrls, q.imagePublicIds)
        item ==
            [key       |-> number,        \* the element's identity
             id        |-> number,        \* question-N, data-question, names
             text      |-> q.question,
             options   |-> q.options,
             correct   |-> q.correctAnswer,
             renamed   |-> FALSE,         \* the question input is named option-N-0
             onclickId |-> number,        \* the Remove Question button's onclick
             images    |-> images,        \* the closure's currentImages
             urlsInput |-> q.imageUrls,
             idsInput  |-> q.imagePublicIds,
             previews  |-> [k \in 1..Len(q.imageUrls) |->
                               [url       |-> q.imageUrls[k],
                                index     |-> k - 1,
                                listeners |-> <<"image">>,
                                onclickId |-> 0]],
             uploadShown |-> Len(images) < 3,
             uploading   |-> 0]
    IN [pg EXCEPT !.questionCount = number, !.items = Append(@, item)]

RECURSIVE loadExistingQuestions(_, _, _)
loadExistingQuestions(pg, qs, number) ==
    IF qs = <<>> THEN
        IF number = 1 THEN addQuestion(pg, NoQuestion, pg.questionCount + 1)
        ELSE pg
    ELSE loadExistingQuestions(addQuestion(pg, Head(qs), number), Tail(qs),
                               number + 1)

\* the position of the item with this key, 0 when it left the document
ItemAt(items, key) ==
    IF \E p \in 1..Len(items) : items[p].key = key
    THEN CHOOSE p \in 1..Len(items) : items[p].key = key
    ELSE 0

\* document.getElementById("question-" + id): the first element with the id
FirstWithId(items, id) ==
    IF \E p \in 1..Len(items) : items[p].id = id
    THEN CHOOSE p \in 1..Len(items) :
             items[p].id = id /\ \A r \in 1..(p - 1) : items[r].id # id
    ELSE 0

\* renumberQuestions on one item at its new position: the id and the names
\* follow the position, the question input ends up named option-N-0, and the
\* onclick goes to the first .btn-error of the item, which is the first
\* preview's button when the item renders previews
Renumbered(it, number) ==
    LET first == it.previews[1] IN
    IF it.previews = <<>> THEN
        [it EXCEPT !.id = number, !.renamed = TRUE, !.onclickId = number]
    ELSE
        [it EXCEPT !.id = number, !.renamed = TRUE,
                   !.previews[1] =
                       [first EXCEPT
                          !.onclickId = number,
                          !.listeners =
                              IF \E k \in 1..Len(@) : @[k] = "remove" THEN @
                              ELSE Append(@, "remove")]]

\* questionElement.remove(); renumberQuestions()
Removed(pg, key) ==
    LET p == ItemAt(pg.items, key)
        left == IF p = 0 THEN pg.items ELSE RemoveAt(pg.items, p)
    IN [pg EXCEPT !.items = [n \in 1..Len(left) |-> Renumbered(left[n], n)],
                  !.questionCount = Len(left)]

\* removeQuestion(id) up to its first await or, without one, to its end
removeQuestion(pg, id) ==
    LET p == FirstWithId(pg.items, id)
        ids == NonEmpty(pg.items[p].idsInput)
    IN IF pg.questionCount <= 1 THEN
           [pg EXCEPT !.alert = "Event must have at least one question"]
       ELSE IF p = 0 THEN pg
       ELSE IF ids = <<>> THEN Removed(pg, pg.items[p].key)
       ELSE [pg EXCEPT !.imageDeletes = @ + 1,
                       !.removals = Append(@, [key  |-> pg.items[p].key,
                                               rest |-> Tail(ids)])]

\* currentImages.splice(index, 1); updateInputs(); updatePreview(): every
\* rendered preview gets one more click listener, no preview is removed
Spliced(it, index) ==
    LET images == RemoveAt(it.images, index + 1) IN
    [it EXCEPT !.images = images,
               !.urlsInput = [k \in 1..Len(images) |-> images[k].url],
               !.idsInput = [k \in 1..Len(images) |-> images[k].publicId],
               !.previews = [k \in 1..Len(@) |->
                                [@[k] EXCEPT !.listeners = Append(@, "image")]],
               !.uploadShown = Len(images) < 3]

\* one click listener of a preview's remove button, up to its await or,
\* without one, to its end
ImageListener(pg, key, pv) ==
    LET p == ItemAt(pg.items, key)
        it == pg.items[p]
    IN IF p = 0 THEN pg
       ELSE IF pv.index + 1 > Len(it.images) THEN pg
       ELSE IF it.images[pv.index + 1].publicId # "" THEN
           [pg EXCEPT !.imageDeletes = @ + 1,
                      !.handlers = Append(@, [key   |-> key,
                                              index |-> pv.index,
                                              url   |-> pv.url])]
       ELSE [pg EXCEPT !.items[p] = Spliced(it, pv.index)]

\* the listeners a button had when the click was dispatched, in order
RECURSIVE RunListeners(_, _, _, _)
RunListeners(pg, key, pv, ls) ==
    IF ls = <<>> THEN pg
    ELSE RunListeners(IF Head(ls) = "image" THEN ImageListener(pg, key, pv)
                      ELSE removeQuestion(pg, pv.onclickId),
                      key, pv, Tail(ls))

\* the images POST /api/upload-image answers with
Uploaded ==
    <<[url |-> "v1", publicId |-> "w1"], [url |-> "v2", publicId |-> "w2"]>>

\* what the user types into one question item
FormEntries ==
    {[text |-> <<"g">>, options |-> OptsABCD, correct |-> 0],
     [text |-> <<"h">>, options |-> <<<<"a">>, <<" ">>, <<"c">>, <<"d">>>>,
      correct |-> 1]}

\* the browser's own check of the required inputs before the submit event
Filled(it) ==
    /\ it.text # <<>>
    /\ \A k \in 1..4 : it.options[k] # <<>>
    /\ it.correct # -1

\* the forEach callback of saveQuestions for position n: the question pushed,
\* if any.  formData.get finds the inputs by name, that is by id
FormQuestion(items, n) ==
    LET p == FirstWithId(items, n)
        it == items[p]
        options == IF it.renamed
                   THEN <<it.text, it.options[1], it.options[2], it.options[3]>>
                   ELSE it.options
    IN IF p = 0 \/ it.renamed \/ Trim(it.text) = <<>> THEN <<>>
       ELSE IF \E k \in 1..4 : Trim(options[k]) = <<>> THEN <<>>
       ELSE IF it.correct < 0 \/ it.correct > 3 THEN <<>>
       ELSE <<[question       |-> Trim(it.text),
               options        |-> MapSeq(Trim, options),
               correctAnswer  |-> it.correct,
               imageUrls      |-> NonEmpty(it.urlsInput),
               imagePublicIds |-> NonEmpty(it.idsInput)]>>

\* the alert the forEach callback shows for position n, "" when none
FormAlert(items, n) ==
    LET p == FirstWithId(items, n)
        it == items[p]
        options == IF it.renamed
                   THEN <<it.text, it.options[1], it.options[2], it.options[3]>>
                   ELSE it.options
    IN IF p = 0 \/ it.renamed \/ Trim(it.text) = <<>> THEN ""
       ELSE IF \E k \in 1..4 : Trim(options[k]) = <<>>
           THEN "All options must be filled"
       ELSE IF it.correct < 0 \/ it.correct > 3
           THEN "Please select a correct answer"
       ELSE ""

\* the alert left showing when the forEach of saveQuestions ends
RECURSIVE LastFormAlert(_, _, _)
LastFormAlert(items, n, before) ==
    IF n = 0 THEN before
    ELSE IF FormAlert(items, n) # "" THEN FormAlert(items, n)
    ELSE LastFormAlert(items, n - 1, before)

RECURSIVE FormQuestions(_, _)
FormQuestions(items, n) ==
    IF n = 0 THEN <<>>
    ELSE FormQuestions(items, n - 1) \o FormQuestion(items, n)

\* the form can be used: the page is still shown and the form is visible
FormShown == page.location = "page" /\ ~page.contributeHidden

(* ------------------------------ the loads ----------------------------- *)
\* the try block of loadEventData when nothing in it throws
Loaded(pg, quota, existing) ==
    [loadExistingQuestions(pg, existing, 1)
        EXCEPT !.load = "ok", !.eventData = quota,
               !.loadingHidden = TRUE, !.contributeHidden = FALSE]

\* the answer of /api/verify reaches checkAuthentication
VerifyArrives(ok) ==
    /\ page.location = "page"
    /\ page.verify = "pending"
    /\ page' = IF ok
               THEN [page EXCEPT !.verify = "ok", !.teacherData = "loaded"]
               ELSE [page EXCEPT !.verify = "failed",
                                 !.location = "teacher-login"]
    /\ UNCHANGED serverVars

\* the answer of GET /api/teacher/events/:eventId reaches loadEventData;
\* displayEventInfo reads teacherData.teacher and throws while it is null
EventArrives(ok, quota, existing) ==
    /\ page.location = "page"
    /\ page.load = "pending"
    /\ page' =
         IF ~ok THEN
             [page EXCEPT !.load = "failed", !.loadingHidden = TRUE,
                          !.errorHidden = FALSE]
         ELSE IF page.teacherData = "null" THEN
             [page EXCEPT !.load = "ok", !.eventData = quota,
                          !.loadingHidden = TRUE, !.errorHidden = FALSE]
         ELSE Loaded(page, quota, existing)
    /\ UNCHANGED serverVars

(* --------------------------- the question list ------------------------ *)
\* a click on the Add Question button: addQuestion receives the click event
\* as existingQuestion, counts, and throws on existingQuestion.options[0]
\* before the item is inserted
AddClick ==
    /\ FormShown
    /\ page.adds < MaxAdds
    /\ page' = [page EXCEPT !.questionCount = @ + 1, !.adds = @ + 1]
    /\ UNCHANGED serverVars

\* the user fills the inputs of the item at position i
Fill(i, entry) ==
    /\ FormShown
    /\ i \in 1..Len(page.items)
    /\ page' = [page EXCEPT !.items[i].text = entry.text,
                            !.items[i].options = entry.options,
                            !.items[i].correct = entry.correct]
    /\ UNCHANGED serverVars

\* a click on the Remove Question button of the item at position i
RemoveClick(i) ==
    /\ FormShown
    /\ i \in 1..Len(page.items)
    /\ page.removes < MaxRemoves
    /\ page' = [removeQuestion(page, page.items[i].onclickId)
                   EXCEPT !.removes = @ + 1]
    /\ UNCHANGED serverVars

\* a delete fetch of the n-th waiting removeQuestion call settles: the next
\* public id is sent, or the element is removed and the rest renumbered
RemoveResume(n) ==
    /\ page.location = "page"
    /\ n \in 1..Len(page.removals)
    /\ LET r == page.removals[n] IN
       page' = IF r.rest # <<>> THEN
                   [page EXCEPT !.imageDeletes = @ + 1,
                                !.removals[n].rest = Tail(r.rest)]
               ELSE Removed([page EXCEPT !.removals = RemoveAt(@, n)], r.key)
    /\ UNCHANGED serverVars

(* ------------------------------ the images ---------------------------- *)
\* a click on the remove button of preview j of the item at position i
ImageClick(i, j) ==
    /\ FormShown
    /\ i \in 1..Len(page.items)
    /\ j \in 1..Len(page.items[i].previews)
    /\ page.clicks < MaxClicks
    /\ LET it == page.items[i]
           pv == it.previews[j]
       IN page' = [RunListeners(page, it.key, pv, pv.listeners)
                      EXCEPT !.clicks = @ + 1]
    /\ UNCHANGED serverVars

\* the delete fetch of the n-th waiting image listener settles
ListenerResume(n) ==
    /\ page.location = "page"
    /\ n \in 1..Len(page.handlers)
    /\ LET h == page.handlers[n]
           p == ItemAt(page.items, h.key)
           rest == [page EXCEPT !.handlers = RemoveAt(@, n)]
       IN page' = IF p = 0 THEN rest
                  ELSE [rest EXCEPT !.items[p] = Spliced(@, h.index)]
    /\ UNCHANGED serverVars

\* files are dropped on the upload area of the item at position i
UploadStart(i, files) ==
    /\ FormShown
    /\ i \in 1..Len(page.items)
    /\ page.items[i].uploadShown
    /\ page.items[i].uploading = 0
    /\ page.uploads < MaxUploads
    /\ page' =
         IF Len(page.items[i].images) + files > 3 THEN
             [page EXCEPT !.uploads = @ + 1,
                          !.alert = "Maximum of 3 images per question allowed"]
         ELSE [page EXCEPT !.uploads = @ + 1,
                           !.items[i].uploadShown = FALSE,
                           !.items[i].uploading = files]
    /\ UNCHANGED serverVars

\* the answer of POST /api/upload-image reaches handleImageUpload
UploadDone(i, ok) ==
    /\ page.location = "page"
    /\ i \in 1..Len(page.items)
    /\ page.items[i].uploading > 0
    /\ LET it == page.items[i]
           images == it.images \o SubSeq(Uploaded, 1, it.uploading)
           done == IF ok THEN
                       [it EXCEPT
                          !.images = images,
                          !.urlsInput = [k \in 1..Len(images) |-> images[k].url],
                          !.idsInput = [k \in 1..Len(images) |-> images[k].publicId],
                          !.previews = [k \in 1..Len(@) |->
                              [@[k] EXCEPT !.listeners = Append(@, "image")]]]
                   ELSE it
       IN page' = [page EXCEPT
                     !.items[i] = [done EXCEPT !.uploading = 0,
                                               !.uploadShown = Len(done.images) < 3],
                     !.alert = IF ok THEN "Images uploaded successfully!"
                               ELSE "Error uploading images"]
    /\ UNCHANGED serverVars

(* ------------------------------- the save ----------------------------- *)
\* the submit event of the form: saveQuestions up to its fetch
Submit ==
    /\ FormShown
    /\ ~page.saving
    /\ page.saves < MaxSaves
    /\ \A i \in 1..Len(page.items) : Filled(page.items[i])
    /\ LET questions == FormQuestions(page.items, Len(page.items))
           maxQuestions == IF page.eventData = 0 THEN 10 ELSE page.eventData
       IN page' =
            IF questions = <<>> THEN
                [page EXCEPT !.saves = @ + 1,
                             !.alert = "Please add at least one complete question"]
            ELSE IF Len(questions) > maxQuestions THEN
                [page EXCEPT !.saves = @ + 1,
                             !.alert = "Maximum questions allowed for this event"]
            ELSE [page EXCEPT !.saves = @ + 1, !.saving = TRUE,
                              !.sent = Append(@, questions),
                              !.alert = LastFormAlert(page.items,
                                                      Len(page.items), @)]
    /\ UNCHANGED serverVars

\* the answer of the contribute request reaches saveQuestions
SaveResponse(ok) ==
    /\ page.location = "page"
    /\ page.saving
    /\ page' = IF ok
               THEN [page EXCEPT !.saving = FALSE, !.leaving = TRUE,
                                 !.alert = "Questions saved successfully!"]
               ELSE [page EXCEPT !.saving = FALSE,
                                 !.alert = "Failed to save questions"]
    /\ UNCHANGED serverVars

\* the timer set after a successful save fires
Leave ==
    /\ page.location = "page"
    /\ page.leaving
    /\ page' = [page EXCEPT !.location = "teacher-events"]
    /\ UNCHANGED serverVars

(* ------------------- the specification of the page -------------------- *)
PageInit ==
    /\ page = PageStart
    /\ event = NewEvent(MaxQuota)
    /\ pc = [w \in Workers |-> "idle"]
    /\ call = [w \in Workers |-> NoCall]
    /\ pub = NoPub
    /\ calls = 0
    /\ response = [op |-> "none"]
    /\ deleted = FALSE
    /\ responses = <<>>
    /\ sub = NoSub
    /\ del = NoDel
    /\ destroyed = {}

PageNext ==
    \/ \E ok \in BOOLEAN : VerifyArrives(ok)
    \/ \E ok \in BOOLEAN, quota \in 1..MaxQuota, existing \in ExistingSets :
           EventArrives(ok, quota, existing)
    \/ AddClick
    \/ \E i \in 1..Len(page.items), entry \in FormEntries : Fill(i, entry)
    \/ \E i \in 1..Len(page.items) : RemoveClick(i)
    \/ \E n \in 1..Len(page.removals) : RemoveResume(n)
    \/ Submit
    \/ \E ok \in BOOLEAN : SaveResponse(ok)
    \/ Leave

PageSpec == PageInit /\ [][PageNext]_vars

(* ------------- the specification of the image widgets ----------------- *)
\* the page once both answers arrived, /api/verify first
ImageInit ==
    /\ \E existing \in ExistingSets :
          page = Loaded([PageStart EXCEPT !.verify = "ok",
                                         !.teacherData = "loaded"],
                        MaxQuota, existing)
    /\ event = NewEvent(MaxQuota)
    /\ pc = [w \in Workers |-> "idle"]
    /\ call = [w \in Workers |-> NoCall]
    /\ pub = NoPub
    /\ calls = 0
    /\ response = [op |-> "none"]
    /\ deleted = FALSE
    /\ responses = <<>>
    /\ sub = NoSub
    /\ del = NoDel
    /\ destroyed = {}

ImageNext ==
    \/ \E i \in 1..Len(page.items) :
           \E j \in 1..Len(page.items[i].previews) : ImageClick(i, j)
    \/ \E n \in 1..Len(page.handlers) : ListenerResume(n)
    \/ \E i \in 1..Len(page.items), files \in 1..2 : UploadStart(i, files)
    \/ \E i \in 1..Len(page.items), ok \in BOOLEAN : UploadDone(i, ok)
    \/ \E i \in 1..Len(page.items) : RemoveClick(i)
    \/ \E n \in 1..Len(page.removals) : RemoveResume(n)

ImageSpec == ImageInit /\ [][ImageNext]_vars

(* ============================ the claims ============================== *)
(* ------------------------- steps, as state pairs ---------------------- *)
\* a contribute request answered without reaching event.save()
ContributeAnswered == calls' # calls /\ pc' = pc

\* the save of request w was applied and answered 200
SaveLanded(w) == pc[w] = "saving" /\ pc'[w] = "idle" /\ response'.status = 200

\* the save of request w threw
SaveFailed(w) == pc[w] = "saving" /\ pc'[w] = "idle" /\ response'.status # 200

\* a publish request answered without reaching event.save()
PublishAnswered ==
    pub = NoPub /\ pub' = NoPub /\ response' # response /\ response'.op = "publish"

\* the save of the publish request was applied
PublishSaved == pub # NoPub /\ pub' = NoPub

\* the Rejected answer of the contribute handler
Rejected(r) ==
    r.status = 400 /\ r.body.error = "Event is not active for contributions"

\* every slot at or above the quota, said without the handler's own test
Complete(ev) ==
    ~ \E i \in 1..Len(ev.subjects) :
          ev.subjects[i].questionCount < ev.questionsPerSubject

\* the index of the slot request c writes
SlotOf(c) == FindIndex(c.doc.subjects, c.teacher.subject)

(* -------------------------------- C1 ---------------------------------- *)
\* C1, as stated: every contribute request for the stored event that arrives
\* while its status is completed or published is answered Rejected and leaves
\* the stored event unchanged.
C1_AlwaysRejected ==
    [][ (ContributeAnswered /\ event.status # "active")
          => (response'.req.eventId = EventId
                => Rejected(response') /\ event' = event) ]_vars

\* C1, amended: every contribute request WITH A NON-EMPTY BATCH for the stored
\* event that arrives while its status is completed or published is answered
\* Rejected and leaves the stored event unchanged (an empty batch is answered
\* "No questions provided" before the event is looked at).
C1_NonEmptyRejected ==
    [][ (calls' # calls /\ event.status # "active")
          => /\ pc' = pc
             /\ (response'.req.eventId = EventId /\ response'.req.length > 0)
                   => Rejected(response') /\ event' = event ]_vars

\* a contribute request turned away after a publish
C1_Witness ==
    /\ event.status = "published"
    /\ response.op = "contribute"
    /\ response.req.length > 0
    /\ Rejected(response)

(* -------------------------------- C2 ---------------------------------- *)
StatusRank(st) == IF st = "active" THEN 0 ELSE IF st = "completed" THEN 1 ELSE 2

\* C2: the stored status only moves forward along active, completed,
\* published; no step takes it from published to completed or active, or from
\* completed to active.
C2_StatusOnlyAdvances ==
    [][ StatusRank(event'.status) >= StatusRank(event.status) ]_vars

(* -------------------------------- C3 ---------------------------------- *)
\* C3: when the save of a contribution lands, the questions every other slot
\* holds at that moment (the batch another teacher's interleaved call stored)
\* are still there afterwards, so that both batches end up stored.
C3_BothBatchesStored ==
    [][ \A w \in Workers :
          SaveLanded(w) =>
            \A i \in 1..Len(event.subjects) :
               i # SlotOf(call[w]) =>
                  event'.subjects[i].questions = event.subjects[i].questions ]_vars

(* -------------------------------- C4 ---------------------------------- *)
\* C4: a contribute call that fails (answered 400, 404 or 500, at any of its
\* checks or at its save) leaves the stored event exactly as it was.
C4_FailureChangesNothing ==
    [][ /\ ContributeAnswered =>
            response'.status \in {400, 404, 500} /\ event' = event
        /\ \A w \in Workers : SaveFailed(w) => event' = event ]_vars

\* a two-question batch refused for a malformed question while the store
\* holds questions
C4_Witness ==
    /\ response.op = "contribute"
    /\ response.status = 500
    /\ response.body.details = "Each question must have exactly 4 options"
    /\ response.req.length = 2
    /\ event.totalQuestions > 0

(* -------------------------------- C5 ---------------------------------- *)
Spaces(n) == [i \in 1..n |-> " "]

\* t is s without its leading and trailing white space
IsTrimOf(t, s) ==
    /\ t = <<>> \/ (Head(t) # " " /\ t[Len(t)] # " ")
    /\ \E i, j \in 0..Len(s) : s = Spaces(i) \o t \o Spaces(j)

\* the stored question is the submitted one, trimmed
IsStoredFormOf(stored, q) ==
    /\ IsTrimOf(stored.question, q.question)
    /\ Len(stored.options) = Len(q.options)
    /\ \A k \in 1..Len(q.options) : IsTrimOf(stored.options[k], q.options[k])
    /\ stored.correctAnswer = q.correctAnswer

\* the questions of a slot attributed to a teacher, in slot order
QuestionsOf(slot, teacherId) ==
    SelectSeq(slot.questions, LAMBDA q : q.teacherId = teacherId)

\* C5: after a contribute call of teacher T with batch B succeeds, the
\* questions of T's slot attributed to T are the trimmed questions of B, in
\* B's order, and nothing else.
C5_ExactlyTheBatch ==
    [][ \A w \in Workers :
          SaveLanded(w) =>
            LET c    == call[w]
                mine == QuestionsOf(event'.subjects[SlotOf(c)], c.teacher.id)
            IN  /\ Len(mine) = Len(c.questions)
                /\ \A k \in 1..Len(mine) : IsStoredFormOf(mine[k], c.questions[k]) ]_vars

\* a one-question resubmission has landed on a slot that held two questions
\* of the same teacher (another request still holds the copy it read then)
C5_Witness ==
    /\ response.op = "contribute"
    /\ response.status = 200
    /\ response.body.questionCount = 1
    /\ Len(QuestionsOf(event.subjects[1], "t1")) = 1
    /\ \E w \in Workers :
          /\ pc[w] = "saving"
          /\ call[w].teacher.id = "t2"
          /\ Len(QuestionsOf(call[w].doc.subjects[1], "t1")) = 2

(* -------------------------------- C6 ---------------------------------- *)
RECURSIVE CountUpTo(_, _)
CountUpTo(ev, n) ==
    IF n = 0 THEN 0 ELSE CountUpTo(ev, n - 1) + ev.subjects[n].questionCount

\* C6: in every stored state, totalQuestions is the sum of the slots'
\* questionCount.
C6_TotalIsSum == event.totalQuestions = CountUpTo(event, Len(event.subjects))

\* a published event with questions in two slots
C6_Witness ==
    /\ event.status = "published"
    /\ event.subjects[1].questionCount > 0
    /\ event.subjects[2].questionCount > 0
    /\ event.totalQuestions >= 3

(* -------------------------------- C7 ---------------------------------- *)
\* C7: when the save of a contribution lands on an event whose stored status
\* is active, the stored status afterwards is completed if every slot now has
\* questionCount >= questionsPerSubject, and active otherwise.
C7_CompletedIffAllAtQuota ==
    [][ \A w \in Workers :
          (SaveLanded(w) /\ event.status = "active") =>
             event'.status = (IF Complete(event') THEN "completed" ELSE "active") ]_vars

\* the contribution that filled the last slot has completed the event
C7_Witness ==
    /\ response.op = "contribute"
    /\ response.status = 200
    /\ response.body.eventStatus = "completed"
    /\ event.status = "completed"
    /\ event.questionsPerSubject > 0
    /\ pub = NoPub

(* -------------------------------- C8 ---------------------------------- *)
\* the slots below the quota, each with its count and the quota
ShortSlots(ev) ==
    { <<ev.subjects[i].subject, ev.subjects[i].questionCount, ev.questionsPerSubject>> :
        i \in { j \in 1..Len(ev.subjects) :
                  ev.subjects[j].questionCount < ev.questionsPerSubject } }

SeqRange(s) == { s[i] : i \in 1..Len(s) }

\* C8: a publish request of the owner for an event with a slot below the quota
\* fails, reports exactly the slots below the quota, each with its count and
\* the quota, and leaves the stored event unchanged.
C8_PublishFailsListingShortSlots ==
    [][ ShortSlots(event) # {} =>
          /\ pub = NoPub => pub' = NoPub
          /\ PublishAnswered =>
                /\ event' = event
                /\ (response'.req = [host |-> Owner, eventId |-> EventId]
                      => /\ response'.status = 400
                         /\ SeqRange(response'.body.subjectNames) = ShortSlots(event)
                         /\ Len(response'.body.subjectNames)
                               = Cardinality(ShortSlots(event))) ]_vars

\* the scenario of the specification: Mathematics at 1 of 2, English at 2 of 2
C8_Witness ==
    /\ response.op = "publish"
    /\ response.status = 400
    /\ response.body.subjectNames = << <<"Mathematics", 1, 2>> >>
    /\ event.subjects[2].questionCount = 2

(* -------------------------------- C9 ---------------------------------- *)
\* C9: a publish request of the owner for an event with every slot at or above
\* the quota is not turned away, and once its save is applied the stored
\* status is published, whether it read active or completed; the save changes
\* nothing but the status.
C9_PublishCompleteSucceeds ==
    [][ /\ (PublishAnswered /\ response'.req = [host |-> Owner, eventId |-> EventId])
              => ~Complete(event)
        /\ (PublishSaved /\ pub.loaded \in {"active", "completed"})
              => /\ response'.status = 200
                 /\ event' = [event EXCEPT !.status = "published"] ]_vars

\* published straight from active: no contribution was ever stored
C9_Witness ==
    /\ event.status = "published"
    /\ event.totalQuestions = 0
    /\ response.op = "publish"
    /\ response.status = 200

HoldsBatch(slot, teacherId, batch) ==
    LET mine == QuestionsOf(slot, teacherId)
    IN  /\ Len(mine) = Len(batch)
        /\ \A k \in 1..Len(mine) : IsStoredFormOf(mine[k], batch[k])

\* the counts of the ledger entries of a teacher, in ledger order
LedgerCounts(slot, teacherId) ==
    LET mine == SelectSeq(slot.teacherContributions,
                          LAMBDA e : e.teacherId = teacherId)
    IN  [k \in 1..Len(mine) |-> mine[k].questionCount]

\* C11: when a teacher contributes the batch the slot already holds for them
\* (the same call made twice in a row: nothing was saved between the second
\* call's read and its save), the slot's questionCount and the teacher's
\* ledger count are what the first call left; a second call that is turned
\* away as Rejected changes nothing.
C11_SameBatchTwice ==
    [][ /\ \A w \in Workers :
              (/\ SaveLanded(w)
               /\ ~call[w].stale
               /\ HoldsBatch(event.subjects[SlotOf(call[w])],
                             call[w].teacher.id, call[w].questions))
              => LET i == SlotOf(call[w])
                     t == call[w].teacher.id
                 IN  /\ event'.subjects[i].questionCount
                           = event.subjects[i].questionCount
                     /\ LedgerCounts(event'.subjects[i], t)
                           = LedgerCounts(event.subjects[i], t)
                     /\ LedgerCounts(event'.subjects[i], t)
                           = << Len(call[w].questions) >>
        /\ (ContributeAnswered /\ Rejected(response')) => event' = event ]_vars

\* a teacher's two-question batch is stored and the same teacher's second
\* call with the same batch has read the event and is about to save
C11_Witness ==
    /\ response.op = "contribute"
    /\ response.status = 200
    /\ \E w \in Workers :
          /\ pc[w] = "saving"
          /\ ~call[w].stale
          /\ Len(call[w].questions) = 2
          /\ HoldsBatch(event.subjects[SlotOf(call[w])],
                        call[w].teacher.id, call[w].questions)
          /\ call[w].doc.subjects[SlotOf(call[w])].questionCount = 2

(* -------------------------------- C12 --------------------------------- *)
\* the questions of a slot not attributed to the teacher, in slot order
OthersOf(slot, teacherId) ==
    SelectSeq(slot.questions, LAMBDA q : q.teacherId # teacherId)

\* C12, as stated: when the save of a batch of questionsPerSubject questions
\* lands, the caller's slot has questionCount = questionsPerSubject, whatever
\* the slot held before.
C12_ExactlyQuota ==
    [][ \A w \in Workers :
          (SaveLanded(w) /\ Len(call[w].questions) = event.questionsPerSubject)
          => event'.subjects[SlotOf(call[w])].questionCount
                = event.questionsPerSubject ]_vars

\* C12, amended: when the save of a batch of questionsPerSubject questions
\* lands, the caller's slot has questionCount = questionsPerSubject plus the
\* number of questions the slot keeps from other teachers of the same subject;
\* it is questionsPerSubject exactly when the slot holds no such question.
C12_QuotaPlusOthers ==
    [][ \A w \in Workers :
          (SaveLanded(w) /\ Len(call[w].questions) = event.questionsPerSubject)
          => LET slot == event'.subjects[SlotOf(call[w])]
                 others == OthersOf(slot, call[w].teacher.id)
             IN  /\ slot.questionCount
                       = event.questionsPerSubject + Len(others)
                 /\ Len(QuestionsOf(slot, call[w].teacher.id))
                       = event.questionsPerSubject
                 /\ (others = <<>>
                       <=> slot.questionCount = event.questionsPerSubject) ]_vars

\* a quota-sized batch has landed in a slot that holds a question of the
\* subject's other teacher: three questions for a quota of two
C12_Witness ==
    /\ event.questionsPerSubject = 2
    /\ response.op = "contribute"
    /\ response.status = 200
    /\ response.body.questionCount = 2
    /\ response.body.totalSubjectQuestions = 3
    /\ event.subjects[1].questionCount = 3
    /\ Len(QuestionsOf(event.subjects[1], "t1")) = 2
    /\ Len(QuestionsOf(event.subjects[1], "t3")) = 1

(* -------------------------------- C13 --------------------------------- *)
TeacherIds == { t.id : t \in Teachers }

\* C13: in every stored state, every slot has at most one ledger entry per
\* teacher, and a teacher with questions in the slot has an entry whose count
\* is the number of those questions.
C13_LedgerMatchesQuestions ==
    \A i \in 1..Len(event.subjects) : \A t \in TeacherIds :
        LET slot == event.subjects[i]
        IN  /\ Len(LedgerCounts(slot, t)) <= 1
            /\ Len(QuestionsOf(slot, t)) > 0
                  => LedgerCounts(slot, t) = << Len(QuestionsOf(slot, t)) >>

\* a slot shared by the two Mathematics teachers, one question of the one
\* and two of the other
C13_Witness ==
    /\ LedgerCounts(event.subjects[1], "t1") = <<1>>
    /\ LedgerCounts(event.subjects[1], "t3") = <<2>>
    /\ Len(QuestionsOf(event.subjects[1], "t1")) = 1
    /\ Len(QuestionsOf(event.subjects[1], "t3")) = 2

(* -------------------------------- C14 --------------------------------- *)
\* C14: in every stored state, each slot's questionCount is the length of
\* the slot's questions.
C14_CountIsLength ==
    \A i \in 1..Len(event.subjects) :
        event.subjects[i].questionCount = Len(event.subjects[i].questions)

\* the English slot was written (two questions) and the Mathematics slot is
\* as the event's creation left it
C14_Witness ==
    /\ response.op = "contribute"
    /\ response.status = 200
    /\ Len(event.subjects[2].questions) = 2
    /\ event.subjects[2].questionCount = 2
    /\ event.subjects[1].questions = <<>>
    /\ event.subjects[1].questionCount = 0

(* -------------------------------- C15 --------------------------------- *)
\* the handler's check of the number of options has turned the request away
OptionsCheckFailed(r) ==
    /\ r.op = "contribute"
    /\ "details" \in DOMAIN r.body
    /\ r.body.details = "Each question must have exactly 4 options"

\* C15: a contribute request turned away because a question of its batch does
\* not have exactly 4 options is answered with a client-input error (a 4xx
\* status, not the 500 of a server failure) that names the position of the
\* question in the batch, and the stored event is unchanged.
C15_BadOptionsIsInvalidInput ==
    [][ (ContributeAnswered /\ OptionsCheckFailed(response'))
          => /\ response'.status \in 400..499
             /\ \E f \in DOMAIN response'.body :
                    response'.body[f] \in 0..MaxBatch
             /\ event' = event ]_vars

(* -------------------------------- C16 --------------------------------- *)
\* a text with a character that is not white space
NonBlank(s) == \E k \in 1..Len(s) : s[k] # " "

\* C16: every stored question has a question text that is not empty after
\* trimming, exactly 4 options, each not empty after trimming, and a
\* correctAnswer in 0..3.
C16_StoredQuestionsValid ==
    \A i \in 1..Len(event.subjects) :
        \A k \in 1..Len(event.subjects[i].questions) :
            LET q == event.subjects[i].questions[k]
            IN  /\ NonBlank(q.question)
                /\ Len(q.options) = 4
                /\ \A o \in 1..Len(q.options) : NonBlank(q.options[o])
                /\ q.correctAnswer \in 0..3

SlotNames(ev) == [i \in 1..Len(ev.subjects) |-> ev.subjects[i].subject]

\* C20: no step of a contribute or publish request changes the sequence of
\* slot names of the stored event, and no name occurs in it twice.
C20_SlotsFixed ==
    [][ /\ SlotNames(event') = SlotNames(event)
        /\ \A i, j \in 1..Len(event'.subjects) :
               event'.subjects[i].subject = event'.subjects[j].subject => i = j ]_vars

\* contributions to both slots and a publish have been stored, and the
\* slots are the two the event was created with
C20_Witness ==
    /\ SlotNames(event) = <<"Mathematics", "English">>
    /\ event.subjects[1].questions # <<>>
    /\ event.subjects[2].questions # <<>>
    /\ event.status = "published"
    /\ response.op = "publish"
    /\ response.status = 200

(* -------------------------------- C18 --------------------------------- *)
\* a student request answered in this step
StudentAnswered(op) == response' # response /\ response'.op = op

\* a submission was scored in this step and now awaits response.save()
SubmitAccepted == sub = NoSub /\ sub' # NoSub

\* C18: a fetch by the event's share id is answered with the event exactly
\* when the stored status is published, and with 404 when it is active or
\* completed; a submission is scored only from a published event, one that
\* arrives while the status is active or completed is answered 404 and
\* records nothing, and a response record is only ever inserted for a
\* submission scored that way.
C18_StudentsOnlyWhenPublished ==
    [][ /\ (StudentAnswered("fetch") /\ response'.req.shareId = ShareId /\ ~deleted)
              => /\ response'.status = (IF event.status = "published" THEN 200 ELSE 404)
                 /\ response'.status = 200 => response'.body = event
                 /\ responses' = responses
        /\ SubmitAccepted => (event.status = "published" /\ ~deleted)
        /\ (StudentAnswered("submit") /\ sub = NoSub)
              => /\ response'.status = 404
                 /\ responses' = responses
                 /\ sub' = NoSub
        /\ (event.status \in {"active", "completed"} /\ sub = NoSub)
              => (sub' = NoSub /\ Len(responses') <= Len(responses))
        /\ Len(responses') > Len(responses)
              => (sub # NoSub /\ responses' = Append(responses, sub.doc)) ]_vars

\* a submission for the event's share id was answered 404 while the event
\* was completed and not yet published; no response is recorded
C18_Witness ==
    /\ response.op = "submit"
    /\ response.status = 404
    /\ response.req.shareId = ShareId
    /\ event.status = "completed"
    /\ ~deleted
    /\ responses = <<>>

(* -------------------------------- C19 --------------------------------- *)
\* C19: once the delete request has removed the event, no response record
\* refers to the event, and every public id of a question of the event as it
\* was last stored has been passed to the image hosting's destroy.
C19_DeleteCascades ==
    deleted =>
        /\ \A k \in 1..Len(responses) : responses[k].eventId # EventId
        /\ PublicIds(event) \subseteq destroyed

(* -------------------------------- C22 --------------------------------- *)
\* C22: a contribute request for an event id that no event has is answered
\* 404, whatever its batch (empty and malformed ones included), and leaves
\* the stored event unchanged.
C22_MissingEventIsNotFound ==
    [][ (ContributeAnswered /\ response'.req.eventId # EventId)
          => (response'.status = 404 /\ event' = event) ]_vars

HostAnswered == response' # response /\ response'.op \in {"publish", "delete"}

\* C25: a publish or delete request of a host that does not own the event
\* is answered 404 and changes neither the event (status, questions), nor the
\* responses, nor the images, nor whether the event exists; only requests of
\* the owner get as far as a save or a delete.
C25_OnlyTheOwner ==
    [][ /\ (HostAnswered /\ response'.req.host # event.hostId)
              => /\ response'.status = 404
                 /\ event' = event
                 /\ deleted' = deleted
                 /\ responses' = responses
                 /\ destroyed' = destroyed
        /\ (pub' # pub /\ pub' # NoPub) => pub'.host = event.hostId
        /\ (del' # del /\ del' # NoDel) => del'.host = event.hostId ]_vars

\* another host's delete request for a published event that has a response
\* and an image was answered 404
C25_Witness ==
    /\ response.op = "delete"
    /\ response.status = 404
    /\ response.req = [host |-> "h2", eventId |-> EventId]
    /\ event.status = "published"
    /\ ~deleted
    /\ responses # <<>>
    /\ PublicIds(event) # {}
    /\ destroyed = {}

(* -------------------------------- C30 --------------------------------- *)
\* the positions of the answers for a subject that pick the stored
\* correctAnswer of the question at their questionIndex (counted from 0)
RightAnswers(ev, i, answers) ==
    { k \in 1..Len(answers) :
        /\ answers[k].subject = ev.subjects[i].subject
        /\ answers[k].questionIndex \in 0..(Len(ev.subjects[i].questions) - 1)
        /\ answers[k].selectedAnswer
              = ev.subjects[i].questions[answers[k].questionIndex + 1].correctAnswer }

RECURSIVE ScoreUpTo(_, _)
ScoreUpTo(scores, n) ==
    IF n = 0 THEN 0 ELSE ScoreUpTo(scores, n - 1) + scores[n].score

\* C30: when a submission to a published event is scored, each subject's
\* score is the number of its answers that pick the stored correctAnswer of
\* the question at their questionIndex, totalScore is the sum of the subject
\* scores, totalQuestions is the number of answers whose subject is a slot of
\* the event, and totalScore <= totalQuestions; the record inserted and the
\* answer sent carry these values.
C30_ScoreCountsRightAnswers ==
    [][ /\ SubmitAccepted =>
              LET doc == sub'.doc
              IN  /\ Len(doc.scores) = Len(event.subjects)
                  /\ \A i \in 1..Len(event.subjects) :
                        /\ doc.scores[i].subject = event.subjects[i].subject
                        /\ doc.scores[i].score
                              = Cardinality(RightAnswers(event, i, doc.answers))
                  /\ doc.totalScore = ScoreUpTo(doc.scores, Len(doc.scores))
                  /\ doc.totalQuestions
                        = Cardinality({ k \in 1..Len(doc.answers) :
                              \E i \in 1..Len(event.subjects) :
                                 doc.answers[k].subject = event.subjects[i].subject })
                  /\ doc.totalScore <= doc.totalQuestions
        /\ Len(responses') > Len(responses) =>
              /\ responses'[Len(responses')] = sub.doc
              /\ response'.body.totalScore = sub.doc.totalScore
              /\ response'.body.totalQuestions = sub.doc.totalQuestions
              /\ response'.body.scores = sub.doc.scores ]_vars

\* a submission with a right Mathematics answer, a right English answer and
\* an English answer for a question the slot does not have was answered:
\* 2 of 3
C30_Witness ==
    /\ response.op = "submit"
    /\ response.status = 200
    /\ response.body.totalScore = 2
    /\ response.body.totalQuestions = 3
    /\ response.body.percentage = 67
    /\ responses # <<>>

(* --------------------------------- C26 -------------------------------- *)
\* C26: on the contribute page, once both the /api/verify request and the
\* event request have succeeded, the form is visible and the error container
\* is hidden, whichever answer arrived first.
C26_FormShownOnceBothSucceed ==
    (page.verify = "ok" /\ page.load = "ok")
        => (~page.contributeHidden /\ page.errorHidden)

(* --------------------------------- C27 -------------------------------- *)
\* the submit event of the form was handled in this step
SubmitStep == page'.saves = page.saves + 1

\* a question item with a question text and with an option saveQuestions
\* counts as not filled, or without a selected correct answer
Unfinished(it) ==
    /\ Trim(it.text) # <<>>
    /\ \/ \E k \in 1..4 : Trim(it.options[k]) = <<>>
       \/ it.correct \notin 0..3

\* C27: when the form is submitted while some question item with a question
\* text has an unfilled option or no selected correct answer, saveQuestions
\* sends no contribute request.
C27_NoRequestWithUnfinishedQuestion ==
    [][(SubmitStep /\ \E i \in 1..Len(page.items) : Unfinished(page.items[i]))
          => page'.sent = page.sent]_vars

(* --------------------------------- C28 -------------------------------- *)
\* C28: once the form is loaded, after any sequence of clicks on the Add
\* Question and Remove Question buttons, overlapping removals included, the
\* form holds at least one question item and questionCount equals the number
\* of question items.
C28_AtLeastOneItemAndCounted ==
    page.load = "ok" /\ ~page.contributeHidden
        => /\ Len(page.items) >= 1
           /\ page.questionCount = Len(page.items)

(* --------------------------------- C29 -------------------------------- *)
\* a click on an image's remove button was handled in this step
ImageClickStep == page'.clicks = page.clicks + 1

\* the n-th waiting image listener finishes in this step, on an item that is
\* still in the form
ListenerDone(n) ==
    /\ n \in 1..Len(page.handlers)
    /\ page'.handlers = RemoveAt(page.handlers, n)
    /\ ItemAt(page.items, page.handlers[n].key) # 0

\* the urls of the item's image list
ImageList(it) == [k \in 1..Len(it.images) |-> it.images[k].url]

\* C29: a click on an image's remove button issues at most one image-delete
\* request, and the listener it starts removes exactly one entry from the
\* question's image list, the image the button was rendered for.
C29_OneImagePerClick ==
    [][/\ ImageClickStep => page'.imageDeletes <= page.imageDeletes + 1
       /\ \A n \in 1..Len(page.handlers) :
            ListenerDone(n) =>
                LET h == page.handlers[n]
                    p == ItemAt(page.items, h.key)
                    before == ImageList(page.items[p])
                    after == ImageList(page'.items[p])
                IN /\ Len(after) = Len(before) - 1
                   /\ \E k \in 1..Len(before) :
                        before[k] = h.url /\ after = RemoveAt(before, k)]_vars

(* --------------------------------- C21 -------------------------------- *)
\* every question of every slot of the stored event
StoredQuestions ==
    UNION {{event.subjects[i].questions[k] :
               k \in 1..Len(event.subjects[i].questions)} :
           i \in 1..Len(event.subjects)}

\* C21: every stored question has at most 3 imageUrls, and as many
\* imagePublicIds as imageUrls, for every batch the server accepts.
C21_StoredImagesParallel ==
    \A q \in StoredQuestions :
        /\ Len(q.imageUrls) <= 3
        /\ Len(q.imagePublicIds) = Len(q.imageUrls)

==============================================================================
